---- MODULE Spec2Model ----
(***************************************************************************)
(* State machine of the page component of wiki-tui                         *)
(* (src/src/components/page.rs): the render cache, the link selection and  *)
(* the viewport of one loaded page, driven by the actions that             *)
(* PageComponent::update dispatches and by PageComponent::render.          *)
(***************************************************************************)
EXTENDS Integers, Sequences, FiniteSets, TLC

VARIABLES
    page,           \* PageComponent.page: the document tree and its sections
    rendered,       \* what the renderers return for page.content, by renderer
                    \* and width (page.content is never written)
    renderer,       \* PageComponent.renderer
    render_cache,   \* PageComponent.render_cache: width -> entry
    viewport,       \* PageComponent.viewport: Rect {x, y, width, height}
    selected,       \* PageComponent.selected: (first index, last index)
    is_contents,    \* PageComponent.is_contents
    list_state,     \* contents_state.list_state.selected(): Some(i) is i
    panicked,       \* the session was aborted by a panic
    last,           \* observation of the last operation (not program state)
    root,           \* the Root component (wiki-tui/src/components/root.rs), the
                    \* actions on their way to Root::dispatch and the actions
                    \* Root::dispatch handed to the search component
    parser          \* one call of Parser::parse_document (src/wiki/parser.rs):
                    \* the document, the children parsed so far, the elements

vars == <<page, rendered, renderer, render_cache, viewport, selected, is_contents,
          list_state, panicked, last, root, parser>>

----------------------------------------------------------------------------
(* Bounds of the model *)

\* scroll amounts of ScrollUp/ScrollDown are drawn from 1..MaxAmount
MaxAmount == 2
\* the cursor of the contents list is followed up to MaxCursor (and at the
\* wrapped value USizeMax)
MaxCursor == 2
\* depth of the scroll_to_y -> ... -> scroll_to_y call chain that is followed
MaxDepth == 6
\* number of actions that wait for Root::dispatch at one time
MaxQueue == 2
\* number of actions handed to the search component that are followed
MaxSearch == 3
\* number of children of the mw-parser-output node of a parsed document
MaxNodes == 2

Amounts == 1..MaxAmount
Widths == {0, 2}
Heights == {0, 2, 5}

----------------------------------------------------------------------------
(* Machine integers *)

\* u16::MAX
U16Max == 65535
\* stands for usize::MAX (the value 0usize - 1 wraps to in a release build):
\* the largest integer of the checker, above every index of the model
USizeMax == 2147483647

Min(a, b) == IF a < b THEN a ELSE b
Max(a, b) == IF a > b THEN a ELSE b

\* u16::saturating_sub
saturating_sub(a, b) == IF a > b THEN a - b ELSE 0
\* u16::saturating_add
saturating_add(a, b) == Min(a + b, U16Max)

----------------------------------------------------------------------------
(* The document tree (wiki_api::document): nodes carry their pre-order     *)
(* index; node i of the tree is nodes[i + 1].                              *)

\* Option::None for a node index
NoNode == 0 - 1

Nd(data, parent, words, id, link) ==
    [data |-> data, parent |-> parent, words |-> words, id |-> id, link |-> link]

\* a page with a header, a link with a directly nested text, a link whose
\* text is nested in an emphasis node, and two links in a second paragraph
DocSmall ==
    [nodes |-> <<
        Nd("Section",   NoNode, 0, "", ""),            \* 0
        Nd("Header",    0, 0, "History", ""),          \* 1
        Nd("Text",      1, 1, "", ""),                 \* 2
        Nd("Paragraph", 0, 0, "", ""),                 \* 3
        Nd("Text",      3, 3, "", ""),                 \* 4
        Nd("Link",      3, 0, "", "Internal"),         \* 5
        Nd("Text",      5, 1, "", ""),                 \* 6
        Nd("Text",      3, 4, "", ""),                 \* 7
        Nd("Link",      3, 0, "", "External"),         \* 8
        Nd("Italic",    8, 0, "", ""),                 \* 9
        Nd("Text",      9, 2, "", ""),                 \* 10
        Nd("Text",      3, 3, "", ""),                 \* 11
        Nd("Paragraph", 0, 0, "", ""),                 \* 12
        Nd("Link",      12, 0, "", "MediaLink"),       \* 13
        Nd("Text",      13, 1, "", ""),                \* 14
        Nd("Link",      12, 0, "", "RedLink"),         \* 15
        Nd("Text",      15, 1, "", "")                 \* 16
     >>,
     sections |-> <<"History">>, title |-> "Small"]

\* a page whose tree has no node
DocEmpty == [nodes |-> <<>>, sections |-> <<>>, title |-> "Empty"]

\* a page of text alone: no link and no header
DocPlain ==
    [nodes |-> <<
        Nd("Section",   NoNode, 0, "", ""),            \* 0
        Nd("Paragraph", 0, 0, "", ""),                 \* 1
        Nd("Text",      1, 1, "", "")                  \* 2
     >>,
     sections |-> <<>>, title |-> "Plain"]

\* a page with a link of each of the two kinds DocSmall has none of, both
\* without a text of their own
DocKinds ==
    [nodes |-> <<
        Nd("Section",   NoNode, 0, "", ""),            \* 0
        Nd("Link",      0, 0, "", "Anchor"),           \* 1
        Nd("Link",      0, 0, "", "ExternalToInternal") \* 2
     >>,
     sections |-> <<>>, title |-> "Kinds"]

Docs == {DocSmall, DocEmpty, DocPlain, DocKinds}

\* Document::nodes.len()
NodeCount(doc) == Len(doc.nodes)

\* Node::new / Document::nth: Some(node) iff the index is in the tree
nth(doc, idx) == IF idx \in 0..(NodeCount(doc) - 1) THEN idx ELSE NoNode

\* Node::data
data(doc, idx) == doc.nodes[idx + 1]

\* the children of a node, by index
Children(doc, idx) == {j \in 0..(NodeCount(doc) - 1) : doc.nodes[j + 1].parent = idx}

\* Node::last_child
last_child(doc, idx) ==
    IF Children(doc, idx) = {} THEN NoNode
    ELSE CHOOSE j \in Children(doc, idx) : \A k \in Children(doc, idx) : k <= j

\* whether a is a proper ancestor of j
RECURSIVE IsAncestor(_, _, _)
IsAncestor(doc, a, j) ==
    LET p == doc.nodes[j + 1].parent
    IN  IF p = NoNode THEN FALSE
        ELSE IF p = a THEN TRUE
        ELSE IsAncestor(doc, a, p)

\* Node::descendants: the proper descendants of a node in document order,
\* as the sequence of their indices
descendants(doc, idx) ==
    SelectSeq([k \in 1..NodeCount(doc) |-> k - 1], LAMBDA j : IsAncestor(doc, idx, j))

\* the index of the last node of the subtree of idx (its deepest last
\* descendant, idx itself for a leaf)
RECURSIVE DeepLast(_, _)
DeepLast(doc, idx) ==
    IF last_child(doc, idx) = NoNode THEN idx
    ELSE DeepLast(doc, last_child(doc, idx))

IsLink(doc, idx) == data(doc, idx).data = "Link"

----------------------------------------------------------------------------
(* The layout engine (renderer::default_renderer::render_document and the  *)
(* debug renderers).  A RenderedDocument is [lines, links]: lines is the   *)
(* sequence of display lines, each the sequence of the source node indices *)
(* of its words; links is the sequence of <<line, node index>> pairs.      *)
(* Line y of the document is lines[y + 1].  Every word is one cell wide    *)
(* with its spacing, so a line holds max(1, width) words.                  *)

Renderers == {"Default", "TestRendererTreeData"}

FlushLine(st) ==
    IF st.cur = <<>> THEN st
    ELSE [st EXCEPT !.lines = Append(@, st.cur), !.cur = <<>>]

BlankLine(st) == [FlushLine(st) EXCEPT !.lines = Append(@, <<>>)]

\* n words of the node idx, wrapped at cap words a line: a word that finds
\* the current line full starts the next line
AddWords(st, idx, n, cap) ==
    IF n = 0 THEN st
    ELSE LET all == st.cur \o [k \in 1..n |-> idx]
             full == (Len(all) - 1) \div cap
         IN  [st EXCEPT
                !.lines = @ \o [j \in 1..full |->
                                    SubSeq(all, (j - 1) * cap + 1, j * cap)],
                !.cur = SubSeq(all, full * cap + 1, Len(all))]

\* what the traversal emits on entering a node
EnterNode(doc, idx, st, cap) ==
    LET d == data(doc, idx)
    IN  CASE d.data = "Text" -> AddWords(st, idx, d.words, cap)
          [] d.data = "Header" -> BlankLine(st)
          [] OTHER -> st

\* what the traversal emits on leaving a node
ExitNode(doc, idx, st) ==
    LET d == data(doc, idx)
    IN  CASE d.data = "Header" -> BlankLine(st)
          [] d.data = "Paragraph" -> BlankLine(st)
          [] d.data = "Section" -> FlushLine(st)
          [] OTHER -> st

\* leave idx, and every ancestor whose subtree ends with idx
RECURSIVE CloseFrom(_, _, _)
CloseFrom(doc, idx, st) ==
    LET s1 == ExitNode(doc, idx, st)
        p == data(doc, idx).parent
    IN  IF p # NoNode /\ last_child(doc, p) = idx THEN CloseFrom(doc, p, s1)
        ELSE s1

\* the document-order traversal from node idx on
RECURSIVE Traverse(_, _, _, _)
Traverse(doc, idx, st, cap) ==
    IF idx >= NodeCount(doc) THEN st
    ELSE LET s1 == EnterNode(doc, idx, st, cap)
             s2 == IF last_child(doc, idx) = NoNode THEN CloseFrom(doc, idx, s1)
                   ELSE s1
         IN  Traverse(doc, idx + 1, s2, cap)

\* the line of the first word whose source index lies in lo..hi, NoNode
\* when no line has one
FirstLine(lines, lo, hi) ==
    LET Y == {y \in 0..(Len(lines) - 1) :
                \E k \in 1..Len(lines[y + 1]) :
                    lo <= lines[y + 1][k] /\ lines[y + 1][k] <= hi}
    IN  IF Y = {} THEN NoNode ELSE CHOOSE y \in Y : \A z \in Y : y <= z

\* the links index: one entry per line that holds the first word of a
\* link, with the first such link of the line
LinksOf(doc, lines) ==
    LET L == {i \in 0..(NodeCount(doc) - 1) : IsLink(doc, i)}
        At(y) == {i \in L : FirstLine(lines, i, DeepLast(doc, i)) = y}
        Y == {y \in 0..(Len(lines) - 1) : At(y) # {}}
        Kth(k) == CHOOSE y \in Y : Cardinality({z \in Y : z < y}) = k - 1
    IN  [k \in 1..Cardinality(Y) |->
            <<Kth(k), CHOOSE i \in At(Kth(k)) : \A j \in At(Kth(k)) : i <= j>>]

\* renderer::default_renderer::render_document
render_document(doc, width) ==
    LET st == Traverse(doc, 0, [lines |-> <<>>, cur |-> <<>>], Max(1, width))
    IN  [lines |-> st.lines, links |-> LinksOf(doc, st.lines)]

\* renderer::test_renderer::render_tree_data: the raw dump of the tree, one
\* line a node, whatever the width, with no links index
render_tree_data(doc) ==
    [lines |-> [k \in 1..NodeCount(doc) |-> <<k - 1>>], links |-> <<>>]

----------------------------------------------------------------------------
(* ratatui::layout::Rect, for the viewport at offset y (x is always 0)     *)

\* Rect::top
top(y) == y
\* Rect::bottom
bottom(y) == saturating_add(y, viewport.height)
\* Rect::right
right == saturating_add(viewport.x, viewport.width)
\* Rect::contains((0, py)): the viewport at offset y holds the cell (0, py)
contains(y, py) ==
    /\ 0 >= viewport.x
    /\ 0 < right
    /\ py >= y
    /\ py < bottom(y)

----------------------------------------------------------------------------
(* The operations of PageComponent, on a record                            *)
(*   [y, sel, cache, list, panic]  the fields a call can write             *)
(*   [nsel, nscr, nsy, ok]         what is observed of the call            *)
(* nsel, nscr and nsy count the calls of check_and_update_selection,       *)
(* check_and_update_scrolling and scroll_to_y, and ok is FALSE when the    *)
(* call chain was cut at MaxDepth nested scroll_to_y calls.                *)

\* the layouts of a page at the widths 0, 1 and 2 (width w at w + 1)
LayoutsOf(doc) ==
    [Default |-> <<render_document(doc, 0), render_document(doc, 1),
                   render_document(doc, 2)>>,
     TestRendererTreeData |-> render_tree_data(doc)]

\* how many times render_page has run for a width since the cache was last
\* cleared
Renders(cache, width) == IF width \in DOMAIN cache THEN cache[width].renders ELSE 0

\* PageComponent::render_page.  An entry of the cache is kept as the
\* renderer that produced it (the entry at a width is the RenderedDocument
\* that this renderer returns for the page at that width) together with the
\* number of times the width was rendered
render_page(cache, width) ==
    (width :> [by |-> renderer, renders |-> Renders(cache, width) + 1]) @@ cache

\* HashMap::get(&width) on the cache, for a width it holds
get(cache, width) ==
    IF cache[width].by = "Default" THEN rendered.Default[width + 1]
    ELSE rendered.TestRendererTreeData

\* the lookup that renders on every access, whether the width is stored or
\* not
rendered_page_always(cache, width) == render_page(cache, width)

\* the rendered_page! macro: the cache after the page at this width was
\* looked up, and rendered when it was missing
rendered_page(cache, width) ==
    IF width \in DOMAIN cache THEN cache ELSE render_page(cache, width)

\* PageComponent::selected_y
selected_y(sel, cache) ==
    IF viewport.width \notin DOMAIN cache THEN 0
    ELSE LET y == FirstLine(get(cache, viewport.width).lines, sel[1], sel[2])
         IN  IF y = NoNode THEN 0 ELSE y

\* PageComponent::selected_node
selected_node(sel) == nth(page, sel[1])

\* Iterator::find over the links index: the first entry inside the viewport
\* at offset y, or the default
FindLink(links, y, default) ==
    LET I == {k \in 1..Len(links) : contains(y, links[k][1])}
    IN  IF I = {} THEN default
        ELSE links[CHOOSE k \in I : \A j \in I : k <= j]

\* the same over the reversed index: the last entry inside the viewport
RFindLink(links, y, default) ==
    LET I == {k \in 1..Len(links) : contains(y, links[k][1])}
    IN  IF I = {} THEN default
        ELSE links[CHOOSE k \in I : \A j \in I : k >= j]

RECURSIVE scroll_to_y(_, _)
RECURSIVE check_and_update_selection(_)
RECURSIVE select_node(_, _)
RECURSIVE check_and_update_scrolling(_)

\* scroll_to_y with the request stored as it came, never clamped to the
\* line count
scroll_to_y_unclamped(st, y) ==
    IF st.nsy >= MaxDepth THEN [st EXCEPT !.ok = FALSE]
    ELSE
    LET cache == rendered_page(st.cache, viewport.width)
    IN  check_and_update_selection(
            [st EXCEPT !.cache = cache, !.y = y, !.nsy = @ + 1])

\* select_node with the two ends of the range stored the other way round
select_node_swapped(st, idx) ==
    IF nth(page, idx) = NoNode THEN st
    ELSE LET first_index == idx
             last_index == IF last_child(page, idx) # NoNode
                           THEN last_child(page, idx)
                           ELSE first_index
         IN  check_and_update_scrolling([st EXCEPT !.sel = <<last_index, first_index>>])

\* check_and_update_scrolling that stops one line short of a selection below
\* the viewport
check_and_update_scrolling_short(st) ==
    LET selection_y == selected_y(st.sel, st.cache)
        s1 == [st EXCEPT !.nscr = @ + 1]
    IN  IF selection_y < top(st.y) THEN scroll_to_y(s1, selection_y)
        ELSE IF selection_y >= bottom(st.y)
             THEN scroll_to_y(s1, saturating_sub(
                                    saturating_sub(selection_y, viewport.height), 1))
        ELSE s1

\* PageComponent::scroll_to_y
scroll_to_y(st, y) ==
    IF st.nsy >= MaxDepth THEN [st EXCEPT !.ok = FALSE]
    ELSE
    LET cache == rendered_page(st.cache, viewport.width)
        n_lines == Len(get(cache, viewport.width).lines)
        y1 == IF bottom(y) >= n_lines
              THEN saturating_sub(n_lines, viewport.height)
              ELSE y
    IN  check_and_update_selection(
            [st EXCEPT !.cache = cache, !.y = y1, !.nsy = @ + 1])

\* PageComponent::check_and_update_selection
check_and_update_selection(st) ==
    LET cache == rendered_page(st.cache, viewport.width)
        pg == get(cache, viewport.width)
        sy == selected_y(st.sel, cache)
        node == selected_node(st.sel)
        s1 == [st EXCEPT !.cache = cache, !.nsel = @ + 1]
    IN  IF node = NoNode THEN s1
        ELSE IF contains(st.y, sy) THEN s1
        ELSE IF sy < top(st.y)
             THEN select_node(s1, FindLink(pg.links, st.y, <<sy, node>>)[2])
        ELSE IF sy > bottom(st.y)
             THEN select_node(s1, RFindLink(pg.links, st.y, <<sy, node>>)[2])
        ELSE s1

\* PageComponent::select_node
select_node(st, idx) ==
    IF nth(page, idx) = NoNode THEN st
    ELSE LET first_index == idx
             last_index == IF last_child(page, idx) # NoNode
                           THEN last_child(page, idx)
                           ELSE first_index
         IN  check_and_update_scrolling([st EXCEPT !.sel = <<first_index, last_index>>])

\* PageComponent::check_and_update_scrolling
check_and_update_scrolling(st) ==
    LET selection_y == selected_y(st.sel, st.cache)
        s1 == [st EXCEPT !.nscr = @ + 1]
    IN  IF selection_y < top(st.y) THEN scroll_to_y(s1, selection_y)
        ELSE IF selection_y >= bottom(st.y)
             THEN scroll_to_y(s1, saturating_sub(selection_y, viewport.height) + 1)
        ELSE s1

\* the Link nodes among the descendants of the root, in document order
LinkNodes == SelectSeq(descendants(page, 0), LAMBDA i : IsLink(page, i))

\* Iterator::find / Iterator::last over a sequence of node indices
First(seq) == IF seq = <<>> THEN NoNode ELSE seq[1]
Last(seq) == IF seq = <<>> THEN NoNode ELSE seq[Len(seq)]

\* PageComponent::select_first
select_first(st) ==
    IF nth(page, 0) = NoNode THEN st
    ELSE LET node == First(LinkNodes)
         IN  IF node # NoNode THEN select_node(st, node) ELSE st

\* PageComponent::select_last
select_last(st) ==
    IF nth(page, 0) = NoNode THEN st
    ELSE LET node == Last(SelectSeq(LinkNodes, LAMBDA i : i > st.sel[2]))
         IN  IF node # NoNode THEN select_node(st, node) ELSE st

\* PageComponent::select_next
select_next(st) ==
    IF nth(page, 0) = NoNode THEN st
    ELSE LET node == First(SelectSeq(LinkNodes, LAMBDA i : st.sel[2] < i))
         IN  IF node # NoNode THEN select_node(st, node) ELSE st

\* PageComponent::select_prev
select_prev(st) ==
    IF nth(page, 0) = NoNode THEN st
    ELSE LET node == Last(SelectSeq(LinkNodes, LAMBDA i : i < st.sel[1]))
         IN  IF node # NoNode THEN select_node(st, node) ELSE st

\* PageComponent::scroll_to_node
scroll_to_node(st, idx) ==
    LET cache == rendered_page(st.cache, viewport.width)
        s1 == [st EXCEPT !.cache = cache]
    IN  IF nth(page, idx) = NoNode THEN s1
        ELSE LET first_index == idx
                 last_index == IF last_child(page, idx) # NoNode
                               THEN last_child(page, idx)
                               ELSE first_index
                 y == FirstLine(get(cache, viewport.width).lines, first_index, last_index)
             IN  IF y # NoNode THEN scroll_to_y(s1, y) ELSE s1

\* the anchors a GoToHeader action carries: the top sentinel, the anchor of
\* a header of DocSmall, and an anchor no header has
Anchors == {"Content_Top", "History", "Missing"}

\* the Header nodes that carry an anchor, in document order
HeadersWith(anchor) ==
    SelectSeq(descendants(page, 0),
              LAMBDA i : data(page, i).data = "Header" /\ data(page, i).id = anchor)

\* select_header that jumps to the top when no header carries the anchor
select_header_to_top(st, anchor) ==
    IF anchor = "Content_Top" THEN [st EXCEPT !.y = 0]
    ELSE IF nth(page, 0) = NoNode THEN [st EXCEPT !.panic = TRUE]
    ELSE LET header_node == Last(HeadersWith(anchor))
         IN  IF header_node = NoNode THEN [st EXCEPT !.y = 0]
             ELSE scroll_to_node(st, header_node)

\* select_header that looks the top sentinel up like every other anchor
select_header_no_sentinel(st, anchor) ==
    IF nth(page, 0) = NoNode THEN [st EXCEPT !.panic = TRUE]
    ELSE LET header_node == Last(HeadersWith(anchor))
         IN  IF header_node = NoNode THEN st
             ELSE scroll_to_node(st, header_node)

\* PageComponent::select_header
select_header(st, anchor) ==
    IF anchor = "Content_Top" THEN [st EXCEPT !.y = 0]
    ELSE IF nth(page, 0) = NoNode THEN [st EXCEPT !.panic = TRUE]
    ELSE LET header_node == Last(HeadersWith(anchor))
         IN  IF header_node = NoNode THEN st
             ELSE scroll_to_node(st, header_node)

\* PageContentsState.max_idx_section, set by PageComponent::new
max_idx_section == Len(page.sections) % 256

\* usize subtraction a - 1: the outcomes of the builds (a panic where
\* overflow is checked, the wrapped value where it is not)
UsizeDec(a) == IF a > 0 THEN {[v |-> a - 1, panic |-> FALSE]}
               ELSE {[v |-> 0, panic |-> TRUE], [v |-> USizeMax, panic |-> FALSE]}

\* PageComponent::scroll_up: the set of its outcomes
scroll_up(st, amount) ==
    IF is_contents
    THEN IF st.list = 0
         THEN {[st EXCEPT !.list = IF d.panic THEN @ ELSE d.v, !.panic = d.panic] :
                    d \in UsizeDec(max_idx_section)}
         ELSE {[st EXCEPT !.list = @ - 1]}
    ELSE {scroll_to_y(st, saturating_sub(st.y, amount))}

\* PageComponent::scroll_down: the set of its outcomes
scroll_down(st, amount) ==
    IF is_contents
    THEN {[st EXCEPT !.list = IF d.panic THEN @
                              ELSE IF st.list >= d.v THEN 0
                              ELSE st.list + 1,
                     !.panic = d.panic] : d \in UsizeDec(max_idx_section)}
    ELSE {scroll_to_y(st, (st.y + amount) % (U16Max + 1))}

\* PageComponent::scroll_to_bottom
scroll_to_bottom(st) ==
    LET cache == rendered_page(st.cache, viewport.width)
    IN  scroll_to_y([st EXCEPT !.cache = cache], Len(get(cache, viewport.width).lines))

\* an ActionResult: its kind, the title and the message of the popup it
\* asks for, the link node whose title or url the message quotes, and the
\* link node of the LoadLink action a dialog carries
Result(kind, title, message, of, load) ==
    [result |-> kind, title |-> title, message |-> message, of |-> of, load |-> load]

\* ActionResult::consumed() and ActionResult::Ignored
Consumed == Result("Consumed", "", "", NoNode, NoNode)
Ignored == Result("Ignored", "", "", NoNode, NoNode)
\* no result: the call panicked
Aborted == Result("Aborted", "", "", NoNode, NoNode)

\* open_link that asks for the confirmation dialog whatever the link is
open_link_always_dialog(sel) ==
    LET index == sel[1]
    IN  IF nth(page, index) = NoNode THEN Aborted
        ELSE IF data(page, index).data # "Link" THEN Ignored
        ELSE Result("PopupDialog", "Information",
                    "Do you want to open the page", index, index)

\* PageComponent::open_link
open_link(sel) ==
    LET index == sel[1]
    IN  IF nth(page, index) = NoNode THEN Aborted
        ELSE LET link == data(page, index)
             IN  IF link.data # "Link" THEN Ignored
                 ELSE IF link.link = "External"
                      THEN Result("PopupMessage", "Warning",
                                  "This link doesn't point to another page", index, NoNode)
                 ELSE IF link.link = "RedLink"
                      THEN Result("PopupMessage", "Information",
                                  "The page doesn't exist yet", index, NoNode)
                 ELSE IF link.link \in {"MediaLink", "ExternalToInternal"}
                      THEN Result("PopupMessage", "Information",
                                  "This type of link is not supported yet", NoNode, NoNode)
                 ELSE Result("PopupDialog", "Information",
                             "Do you want to open the page", index, index)

----------------------------------------------------------------------------
(* The Root component (wiki-tui/src/components/root.rs)                    *)

\* enum Context
Contexts == {"Home", "Search"}

\* an Action: its variant and, for EnterContext, the context it carries
Act(type, context) == [type |-> type, context |-> context]
ToggleShowLogger == Act("ToggleShowLogger", "")
Quit == Act("Quit", "")
Noop == Act("Noop", "")
EnterContext(context) == Act("EnterContext", context)

\* the actions Root::dispatch calls global
GlobalActions == {ToggleShowLogger} \cup {EnterContext(c) : c \in Contexts}

\* the actions that reach Root::dispatch
RootActions == GlobalActions \cup {Quit, Noop}

\* the keys that are told apart
Keys == {"l", "q", "s", "x"}

\* Search::handle_key_events
search_handle_key_events(key) == Noop

\* Root::new
RootNew ==
    [context |-> "Home", show_logger |-> FALSE, queue |-> <<>>, search |-> <<>>]

\* Root::handle_key_events
root_handle_key_events(r, key) ==
    IF key = "l" THEN ToggleShowLogger
    ELSE IF key = "q" THEN Quit
    ELSE IF r.context = "Home"
         THEN IF key = "s" THEN EnterContext("Search") ELSE Noop
    ELSE search_handle_key_events(key)

\* Search::dispatch: the action is received, and no action comes back
search_dispatch(r, action) == [r EXCEPT !.search = Append(@, action)]

\* Root::dispatch
dispatch(r, action) ==
    LET r1 == IF action = ToggleShowLogger
              THEN [r EXCEPT !.show_logger = ~@]
              ELSE IF action.type = "EnterContext"
              THEN [r EXCEPT !.context = action.context]
              ELSE r
    IN  IF r1.context = "Home" THEN r1
        ELSE search_dispatch(r1, action)

----------------------------------------------------------------------------
(* The parser (src/wiki/parser.rs)                                         *)

\* a node of the html document: its tag name ("" for a text node), whether
\* it has the attribute or the descendant the parser asks for (href of a
\* link, mw-headline of a header), and its children
Html(name, has, children) == [name |-> name, has |-> has, children |-> children]

HtmlText == Html("", FALSE, <<>>)

\* the children of the mw-parser-output node the documents are made of
HtmlNodes ==
    { Html("h2", TRUE, <<>>),
      Html("h2", FALSE, <<>>),
      Html("p", FALSE, <<HtmlText, Html("a", TRUE, <<>>), Html("b", FALSE, <<HtmlText>>)>>),
      Html("a", FALSE, <<>>),
      Html("ul", FALSE, <<Html("li", FALSE, <<HtmlText>>), HtmlText>>),
      Html("div", FALSE, <<HtmlText>>) }

\* the documents: up to MaxNodes children
RECURSIVE SeqsUpTo(_, _)
SeqsUpTo(S, n) ==
    IF n = 0 THEN {<<>>}
    ELSE SeqsUpTo(S, n - 1)
         \cup {Append(q, x) : q \in {t \in SeqsUpTo(S, n - 1) : Len(t) = n - 1}, x \in S}
Documents == SeqsUpTo(HtmlNodes, MaxNodes)

\* Element::new(id, kind, ..)
Element(id, kind) == [id |-> id, kind |-> kind]

\* Parser::next_id
next_id(elements) == saturating_sub(Len(elements), 1)

\* Vec::push of an element of a kind with the id next_id returns
push(elements, kind) == Append(elements, Element(next_id(elements), kind))

\* Parser::push_newline
push_newline(elements) == push(elements, "Newline")

RECURSIVE parse_node(_, _)
RECURSIVE parse_text_from(_, _, _)
RECURSIVE parse_list_from(_, _, _)

\* Parser::parse_text on the children k, k + 1, .. of a node
parse_text_from(elements, children, k) ==
    IF k > Len(children) THEN elements
    ELSE LET child == children[k]
         IN  parse_text_from(IF child.name # "" THEN parse_node(elements, child)
                             ELSE push(elements, "Text"),
                             children, k + 1)

\* Parser::parse_list on the children k, k + 1, .. of a node, up to the two
\* newlines that end the list
parse_list_from(elements, children, k) ==
    IF k > Len(children) THEN push_newline(push_newline(elements))
    ELSE LET child == children[k]
         IN  parse_list_from(
                IF child.name = "li"
                THEN parse_text_from(push(push_newline(elements), "Text"),
                                     child.children, 1)
                ELSE elements,
                children, k + 1)

\* Parser::parse_node, with parse_header, parse_paragraph, parse_link and
\* parse_effect
parse_node(elements, node) ==
    IF node.name \in {"h1", "h2", "h3", "h4", "h5", "h6"}
    THEN IF node.has
         THEN push_newline(push_newline(push(push_newline(elements), "Header")))
         ELSE elements
    ELSE IF node.name = "p"
    THEN push_newline(push_newline(parse_text_from(elements, node.children, 1)))
    ELSE IF node.name = "a"
    THEN IF node.has THEN push(elements, "Link") ELSE elements
    ELSE IF node.name \in {"b", "i"}
    THEN parse_text_from(elements, node.children, 1)
    ELSE IF node.name = "ul"
    THEN parse_list_from(elements, node.children, 1)
    ELSE elements

\* no call of parse_document is under way
ParserIdle == [document |-> <<>>, pos |-> 0, elements |-> <<>>, phase |-> "idle"]

----------------------------------------------------------------------------
(* The state machine *)

\* PageComponent::new, for one of the pages
New(doc) ==
    /\ page = doc
    /\ rendered = LayoutsOf(doc)
    /\ renderer = "Default"
    /\ render_cache = <<>>
    /\ viewport = [x |-> 0, y |-> 0, width |-> 0, height |-> 0]
    /\ selected = <<0, 0>>
    /\ is_contents = FALSE
    /\ list_state = 0
    /\ panicked = FALSE
    /\ last = [op |-> "new", nsel |-> 0, nscr |-> 0, nsy |-> 0, ok |-> TRUE,
               result |-> Consumed, drawn |-> <<>>]

Init == (\E doc \in Docs : New(doc)) /\ root = RootNew /\ parser = ParserIdle

\* the record an operation starts from
Start ==
    [y |-> viewport.y, sel |-> selected, cache |-> render_cache,
     list |-> list_state, panic |-> FALSE,
     nsel |-> 0, nscr |-> 0, nsy |-> 0, ok |-> TRUE]

\* what is observed of the operation op that ended as the record r
Obs(op, r) ==
    [op |-> op, nsel |-> r.nsel, nscr |-> r.nscr, nsy |-> r.nsy, ok |-> r.ok,
     result |-> IF r.panic THEN Aborted ELSE Consumed, drawn |-> <<>>]

\* the state after an operation op of update() that ended as the record r
Done(op, r) ==
    /\ viewport' = [viewport EXCEPT !.y = r.y]
    /\ selected' = r.sel
    /\ render_cache' = r.cache
    /\ list_state' = r.list
    /\ panicked' = r.panic
    /\ last' = Obs(op, r)
    /\ UNCHANGED <<root, parser, page, rendered, renderer, is_contents>>

\* a switch of the renderer that keeps the cache and the selection
SwitchRendererKeeping ==
    /\ ~panicked
    /\ \E r \in Renderers : renderer' = r
    /\ last' = Obs("switch_renderer", Start)
    /\ UNCHANGED <<root, parser, page, rendered, render_cache, selected, viewport, is_contents,
                   list_state, panicked>>

\* PageAction::SwitchRenderer(renderer) -> switch_renderer
SwitchRenderer ==
    /\ ~panicked
    /\ \E r \in Renderers :
        /\ renderer' = r
        /\ render_cache' = <<>>
        /\ selected' = <<0, 0>>
    /\ last' = Obs("switch_renderer", Start)
    /\ UNCHANGED <<root, parser, page, rendered, viewport, is_contents, list_state, panicked>>

\* PageAction::ToggleContents
ToggleContents ==
    /\ ~panicked
    /\ is_contents' = ~is_contents
    /\ last' = Obs("toggle_contents", Start)
    /\ UNCHANGED <<root, parser, page, rendered, renderer, render_cache, viewport, selected, list_state,
                   panicked>>

\* PageAction::SelectFirstLink -> select_first
SelectFirstLink == ~panicked /\ \E r \in {select_first(Start)} : Done("select_first", r)

\* PageAction::SelectLastLink -> select_last
SelectLastLink == ~panicked /\ \E r \in {select_last(Start)} : Done("select_last", r)

\* PageAction::SelectTopLink | PageAction::SelectBottomLink -> todo!()
SelectTopBottomLink ==
    ~panicked /\ Done("select_top_bottom", [Start EXCEPT !.panic = TRUE])

\* PageAction::SelectPrevLink -> select_prev
SelectPrevLink == ~panicked /\ \E r \in {select_prev(Start)} : Done("select_prev", r)

\* PageAction::SelectNextLink -> select_next
SelectNextLink == ~panicked /\ \E r \in {select_next(Start)} : Done("select_next", r)

\* PageAction::GoToHeader(anchor) -> select_header
GoToHeader ==
    /\ ~panicked
    /\ \E anchor \in Anchors :
        \E r \in {select_header(Start, anchor)} :
            Done(IF anchor = "Content_Top" THEN "go_to_top" ELSE "go_to_header", r)

\* the cursor of the contents list stays in the range the model follows
CursorInRange(r) == r.list <= MaxCursor \/ r.list = USizeMax

\* Action::ScrollUp(amount) -> scroll_up
ScrollUp ==
    /\ ~panicked
    /\ \E amount \in Amounts : \E r \in scroll_up(Start, amount) :
            CursorInRange(r) /\ Done("scroll_up", r)

\* Action::ScrollDown(amount) -> scroll_down
ScrollDown ==
    /\ ~panicked
    /\ \E amount \in Amounts : \E r \in scroll_down(Start, amount) :
            CursorInRange(r) /\ Done("scroll_down", r)

\* Action::ScrollHalfUp -> scroll_up(height / 2)
ScrollHalfUp ==
    /\ ~panicked
    /\ \E r \in scroll_up(Start, viewport.height \div 2) :
            CursorInRange(r) /\ Done("scroll_half_up", r)

\* Action::ScrollHalfDown -> scroll_down(height / 2)
ScrollHalfDown ==
    /\ ~panicked
    /\ \E r \in scroll_down(Start, viewport.height \div 2) :
            CursorInRange(r) /\ Done("scroll_half_down", r)

\* Action::ScrollToTop -> scroll_to_y(0)
ScrollToTop == ~panicked /\ \E r \in {scroll_to_y(Start, 0)} : Done("scroll_to_top", r)

\* Action::ScrollToBottom -> scroll_to_bottom
ScrollToBottom == ~panicked /\ \E r \in {scroll_to_bottom(Start)} : Done("scroll_to_bottom", r)

\* Action::Resize(width, height) -> resize
Resize ==
    /\ ~panicked
    /\ \E w \in Widths, h \in Heights :
        viewport' = [viewport EXCEPT !.width = w, !.height = h]
    /\ last' = Obs("resize", Start)
    /\ UNCHANGED <<root, parser, page, rendered, renderer, render_cache, selected, is_contents, list_state,
                   panicked>>

\* the line render() puts in front of the layout lines: the page title
TitleLine == NoNode - 1

\* the lines render() gives to the Paragraph it draws, as indices into the
\* lines of the layout pg, for the viewport at offset y with a height
lines_drawn(pg, y, height) ==
    LET n == Len(pg.lines)
        skipped == Min(y, n)
        taken == Min(n - skipped, saturating_add(y, height))
        lines == [k \in 1..taken |-> skipped + k - 1]
    IN  IF y = 0
        THEN SubSeq(<<TitleLine>> \o lines, 1, Len(lines))
        ELSE lines

\* PageComponent::render on a page area of some width and height: the
\* viewport takes the size of the area and the page at that width is looked
\* up, and rendered when it is missing
Render ==
    /\ ~panicked
    /\ \E w \in Widths, h \in Heights :
        /\ viewport' = [viewport EXCEPT !.width = w, !.height = h]
        /\ render_cache' = rendered_page(render_cache, w)
        /\ last' = [Obs("render", Start) EXCEPT
                        !.drawn = lines_drawn(get(rendered_page(render_cache, w), w),
                                              viewport.y, h)]
    /\ UNCHANGED <<root, parser, page, rendered, renderer, selected, is_contents, list_state, panicked>>

\* KeyCode::Enter in handle_key_events while the page, not the contents
\* list, has the keys -> open_link
OpenLink ==
    /\ ~panicked
    /\ ~is_contents
    /\ \E res \in {open_link(selected)} :
        /\ panicked' = (res = Aborted)
        /\ last' = [Obs("open_link", Start) EXCEPT !.result = res]
    /\ UNCHANGED <<root, parser, page, rendered, renderer, render_cache, viewport, selected, is_contents,
                   list_state>>

Next ==
    \/ SwitchRenderer
    \/ ToggleContents
    \/ SelectFirstLink
    \/ SelectLastLink
    \/ SelectTopBottomLink
    \/ SelectPrevLink
    \/ SelectNextLink
    \/ GoToHeader
    \/ ScrollUp
    \/ ScrollDown
    \/ ScrollHalfUp
    \/ ScrollHalfDown
    \/ ScrollToTop
    \/ ScrollToBottom
    \/ Resize
    \/ Render
    \/ OpenLink

\* the pages with links, a header and a section list, and the empty page
Spec == Init /\ [][Next]_vars

\* the page component, which the actions of Root leave alone
pageVars == <<page, rendered, renderer, render_cache, viewport, selected, is_contents,
              list_state, panicked, last>>

\* a key event reaches Root::handle_key_events; the action it returns waits
\* for Root::dispatch
RootHandleKey ==
    /\ Len(root.queue) < MaxQueue
    /\ \E key \in Keys :
        root' = [root EXCEPT !.queue = Append(@, root_handle_key_events(root, key))]
    /\ UNCHANGED <<pageVars, parser>>

\* an action sent by another component reaches the queue
RootReceive ==
    /\ Len(root.queue) < MaxQueue
    /\ \E action \in RootActions : root' = [root EXCEPT !.queue = Append(@, action)]
    /\ UNCHANGED <<pageVars, parser>>

\* the first waiting action is given to Root::dispatch
RootDispatch ==
    /\ root.queue # <<>>
    /\ Len(root.search) < MaxSearch
    /\ root' = dispatch([root EXCEPT !.queue = Tail(@)], Head(root.queue))
    /\ UNCHANGED <<pageVars, parser>>

RootNext == RootHandleKey \/ RootReceive \/ RootDispatch

\* the Root component next to a page component that no action reaches
RootInit ==
    /\ New(DocEmpty)
    /\ root = RootNew
    /\ parser = ParserIdle

SpecRoot == RootInit /\ [][RootNext]_vars

\* Parser::parse_document is called on a document
ParseInit ==
    /\ New(DocEmpty)
    /\ root = RootNew
    /\ \E document \in Documents :
        parser = [document |-> document, pos |-> 0, elements |-> <<>>, phase |-> "called"]

\* Parser::parse_document, up to the children: the title and two newlines
ParseTitle ==
    /\ parser.phase = "called"
    /\ parser' = [parser EXCEPT
                    !.elements = push_newline(push_newline(push(<<>>, "Header"))),
                    !.phase = "children"]
    /\ UNCHANGED <<pageVars, root>>

\* the closure of parse_document on the next child: parse_node
ParseChild ==
    /\ parser.phase = "children"
    /\ parser.pos < Len(parser.document)
    /\ parser' = [parser EXCEPT
                    !.elements = parse_node(@, parser.document[parser.pos + 1]),
                    !.pos = @ + 1]
    /\ UNCHANGED <<pageVars, root>>

\* parse_document returns Ok(parser.elements)
ParseReturn ==
    /\ parser.phase = "children"
    /\ parser.pos = Len(parser.document)
    /\ parser' = [parser EXCEPT !.phase = "returned"]
    /\ UNCHANGED <<pageVars, root>>

ParseNext == ParseTitle \/ ParseChild \/ ParseReturn

\* one call of parse_document, for each of the documents
SpecParser == ParseInit /\ [][ParseNext]_vars

----------------------------------------------------------------------------
(* What the claims speak of *)

\* the operations that call scroll_up, scroll_down, scroll_to_y or
\* scroll_to_bottom from update()
ScrollOps == {"scroll_up", "scroll_down", "scroll_half_up", "scroll_half_down",
              "scroll_to_top", "scroll_to_bottom"}

\* the anchor jumps
JumpOps == {"go_to_top", "go_to_header"}

\* the link selections
SelectOps == {"select_first", "select_last", "select_next", "select_prev"}

\* the layout for the current width and rendering mode, whether the cache
\* holds it or not
CurrentLayout ==
    get(rendered_page(render_cache, viewport.width), viewport.width)

\* the line count of that layout
TotalLines == Len(CurrentLayout.lines)

\* the largest offset that does not scroll past the content
MaxOffset == Max(0, TotalLines - viewport.height)

\* the line that holds the first word of the selection sel in the layout for
\* the current width (NoNode when no word of the layout is in the selection)
SelectionLine(sel) == FirstLine(CurrentLayout.lines, sel[1], sel[2])

\* some word of the current layout lies in the selection range
SelectionLaidOut == SelectionLine(selected) # NoNode

\* line L is one of the visible lines y .. y + height - 1
Visible(y, L) == y <= L /\ L < y + viewport.height

\* the links index of the current layout has an entry on a visible line
LinkVisible(y) ==
    \E k \in 1..Len(CurrentLayout.links) : Visible(y, CurrentLayout.links[k][1])

\* the offsets update() can request of scroll_to_y in the current state
ScrollRequests ==
    {saturating_sub(viewport.y, a) : a \in Amounts \cup {viewport.height \div 2}}
    \cup {viewport.y + a : a \in Amounts \cup {viewport.height \div 2}}
    \cup {0, TotalLines}

\* the viewport has at least one column and one row
Sized == viewport.width >= 1 /\ viewport.height >= 1

\* every call chain ended within the depth that is followed
ChainsEnd == last.ok

----------------------------------------------------------------------------
(* Claims *)

\* C1: once an operation that called scroll_to_y has returned, the viewport
\* offset y satisfies 0 <= y <= max(0, total_lines - height), total_lines
\* being the line count of the layout for the current width (and the call
\* chain of the operation ended within the depth that is followed).
C1_ViewportClamp ==
    last.nsy > 0 => (ChainsEnd /\ 0 <= viewport.y /\ viewport.y <= MaxOffset)

\* C1 witness: scroll_to_bottom asked for the line count and was clamped to
\* total_lines - height > 0
C1_Witness ==
    /\ last.op = "scroll_to_bottom"
    /\ viewport.height > 0
    /\ viewport.y = TotalLines - viewport.height
    /\ viewport.y > 0

\* C2 (as claimed): scroll_to_y(y) returns with the viewport at exactly
\* min(y, max(0, total_lines - height)), for every offset update() can
\* request, scroll_to_top and scroll_to_bottom included.  Stated for the
\* viewports of at least one column and one row.
C2_EndsAtClampedTarget ==
    (~panicked /\ Sized) =>
        \A y \in ScrollRequests :
            scroll_to_y(Start, y).y = Min(y, MaxOffset)

\* C3 (as claimed): after a select operation that changed the selection,
\* with height >= 1, the line that holds the first word of the selection in
\* the layout for the current width is visible.  Stated for the selections
\* that have a word in the layout.
C3_SelectionVisibleAfterSelect ==
    [][(last'.op \in SelectOps /\ selected' # selected /\ Sized
            /\ SelectionLaidOut')
        => Visible(viewport.y, SelectionLine(selected))']_vars

\* C4 (as claimed): after an operation that changed the viewport offset, if
\* the links index of the current layout has an entry inside the new
\* viewport, the line of the selection is inside the new viewport.  Stated
\* for the sized viewports and the selections that have a word in the layout.
C4_SelectionSnapsIntoViewport ==
    [][(last'.op \in ScrollOps \cup JumpOps /\ viewport'.y # viewport.y /\ Sized
            /\ SelectionLaidOut' /\ LinkVisible(viewport.y)')
        => Visible(viewport.y, SelectionLine(selected))']_vars

\* C5 (as claimed): when a scroll leaves the line of the selection outside
\* the new viewport and no links entry is inside that viewport, the selection
\* after the scroll is the selection before it.  Stated for the sized
\* viewports.
C5_SelectionKeptWithoutLinks ==
    (~panicked /\ Sized) =>
        \A y \in ScrollRequests :
            LET target == Min(y, MaxOffset)
                sy == selected_y(selected, rendered_page(render_cache, viewport.width))
            IN  (~Visible(target, sy) /\ ~LinkVisible(target))
                    => scroll_to_y(Start, y).sel = selected

\* C6 (as claimed): one scroll or select call runs each reconciliation at most
\* once and never comes back to scroll_to_y a second time: there is no chain
\* scroll -> select -> scroll -> ...  Stated for the sized viewports.
C6_OnePassNoChain ==
    (last.op \in ScrollOps \cup SelectOps /\ Sized) =>
        (last.nsel <= 1 /\ last.nscr <= 1 /\ last.nsy <= 1)

\* C7 (as claimed): after a selection or viewport operation has returned,
\* running check_and_update_scrolling and check_and_update_selection again
\* changes neither the selection nor the viewport offset.  Stated for the
\* sized viewports.
C7_SyncIdempotent ==
    (last.op \in SelectOps \cup ScrollOps \cup JumpOps /\ ~panicked /\ Sized) =>
        LET a == check_and_update_scrolling(Start)
            b == check_and_update_selection(Start)
        IN  /\ a.sel = selected /\ a.y = viewport.y
            /\ b.sel = selected /\ b.y = viewport.y

\* C8 (as claimed): when a select operation changed the selection and L is
\* the line of the first word of the selection: y' = L when L was above the
\* viewport, y' = L - height + 1 when L was at or below its bottom, and
\* y' = y when L was inside it.  Stated for the sized viewports and the
\* selections that have a word in the layout.
C8_MinimalScrollOnSelect ==
    [][(last'.op \in SelectOps /\ selected' # selected /\ Sized
            /\ SelectionLaidOut')
        => LET L == SelectionLine(selected)'
               y == viewport.y
           IN  viewport'.y = IF L < y THEN L
                             ELSE IF L >= y + viewport.height
                                  THEN L - viewport.height + 1
                             ELSE y]_vars

\* C9 (as claimed): in every reachable state the viewport offset is at most
\* max(0, total_lines - height) for the layout of the current width and
\* rendering mode.  Stated for the sized viewports.
C9_NeverPastContent == Sized => viewport.y <= MaxOffset

\* C10: in every reachable state the selection range satisfies
\* first_index <= last_index.
C10_SelectionOrdered == selected[1] <= selected[2]

\* C10 witness: a select operation left a range that spans a link and its
\* last child
C10_Witness ==
    /\ last.op \in SelectOps
    /\ selected[1] > 0
    /\ IsLink(page, selected[1])
    /\ selected[1] < selected[2]

\* C11 (as claimed): a selection that select_node stored spans the node and
\* its whole subtree: its end is the index of the deepest last descendant of
\* its start (the start itself for a leaf).  Stated for the selected links.
C11_SelectionSpansSubtree ==
    (selected[1] > 0 /\ IsLink(page, selected[1]))
        => selected[2] = DeepLast(page, selected[1])

\* the Link nodes after the end, and before the start, of a selection
LinksAfter(sel) == SelectSeq(LinkNodes, LAMBDA i : i > sel[2])
LinksBefore(sel) == SelectSeq(LinkNodes, LAMBDA i : i < sel[1])

\* C12 (as claimed): select_next leaves the selection on the first Link node
\* in document order whose index is greater than the end of the selection it
\* started from, for every selection it starts from.  Stated for the sized
\* viewports.
C12_SelectNextTakesFirstAfter ==
    [][(last'.op = "select_next" /\ NodeCount(page) > 0 /\ Sized
            /\ LinksAfter(selected) # <<>>)
        => selected'[1] = First(LinksAfter(selected))]_vars

\* C13 (as claimed): select_prev leaves the selection on the last Link node
\* in document order whose index is less than the start of the selection it
\* started from, and does nothing from the selection (0, 0).  Stated for the
\* sized viewports.
C13_SelectPrevTakesLastBefore ==
    [][(last'.op = "select_prev" /\ NodeCount(page) > 0 /\ Sized)
        => IF LinksBefore(selected) # <<>>
           THEN selected'[1] = Last(LinksBefore(selected))
           ELSE selected' = selected /\ viewport'.y = viewport.y]_vars

\* C14 (as claimed): select_last leaves the selection on the last Link node
\* among those whose index is greater than the end of the selection it
\* started from, and changes nothing when there is none; select_last straight
\* after select_last changes nothing.  Stated for the sized viewports.
C14_SelectLastTakesLastAfter ==
    [][(last'.op = "select_last" /\ NodeCount(page) > 0 /\ Sized)
        => /\ IF LinksAfter(selected) # <<>>
              THEN selected'[1] = Last(LinksAfter(selected))
              ELSE selected' = selected /\ viewport'.y = viewport.y
           /\ last.op = "select_last" => selected' = selected]_vars

\* an operation that ended as the record r left the selection and the
\* viewport offset as they were
Untouched(r) == r.sel = selected /\ r.y = viewport.y

\* indices no node of the tree has
OutOfTree == {NodeCount(page), NodeCount(page) + 1}

\* C15: a navigation operation that finds no target leaves the selection
\* range and the viewport offset exactly as they were: select_first,
\* select_last, select_next and select_prev when no Link node matches,
\* select_node for an index that is not in the tree, and an anchor jump for
\* an anchor that no Header node carries.
C15_NotFoundLeavesState ==
    /\ LinkNodes = <<>> => Untouched(select_first(Start))
    /\ LinksAfter(selected) = <<>>
        => Untouched(select_last(Start)) /\ Untouched(select_next(Start))
    /\ LinksBefore(selected) = <<>> => Untouched(select_prev(Start))
    /\ \A idx \in OutOfTree : Untouched(select_node(Start, idx))
    /\ \A anchor \in Anchors \ {"Content_Top"} :
            HeadersWith(anchor) = <<>> => Untouched(select_header(Start, anchor))

\* C15 witness: an anchor jump for an anchor no header carries has returned
\* on a page with nodes, from a scrolled viewport and a selected link
C15_Witness ==
    /\ last.op = "go_to_header" /\ last.nsy = 0 /\ ~panicked
    /\ NodeCount(page) > 0
    /\ viewport.y > 0 /\ selected[1] > 0

\* the navigation commands: the link selections, the anchor jump with an
\* anchor other than the top sentinel, and the activation of the selection
NavOps == SelectOps \cup {"go_to_header", "open_link"}

\* C16 (as claimed): on a page whose tree has no node, every navigation
\* command returns without aborting the session and leaves the selection and
\* the viewport as they were.
C16_EmptyPageNavigationCompletes ==
    [][(NodeCount(page) = 0 /\ last'.op \in NavOps)
        => (~panicked' /\ selected' = selected /\ viewport' = viewport)]_vars

\* C17: between two clearings of the cache the layout for a width is
\* rendered at most once: every entry the cache holds after a step was
\* rendered exactly once, and a step other than switch_renderer (resize
\* among them) keeps every entry it found, as it was.
C17_LayoutComputedOncePerWidth ==
    [][/\ \A w \in DOMAIN render_cache' : render_cache'[w].renders = 1
       /\ last'.op # "switch_renderer"
            => \A w \in DOMAIN render_cache :
                    w \in DOMAIN render_cache' /\ render_cache'[w] = render_cache[w]]_vars

\* C17 witness: the viewport was resized while the cache held an entry for
\* each of the two widths, the one it left and the one it came back to
C17_Witness ==
    /\ last.op = "resize"
    /\ DOMAIN render_cache = {0, 2}
    /\ viewport.width = 2

\* C18: once switch_renderer has run, from whatever state, the render cache
\* is empty and the selection is the empty selection (0, 0).
C18_SwitchClearsCacheAndSelection ==
    last.op = "switch_renderer" => (render_cache = <<>> /\ selected = <<0, 0>>)

\* C18 witness: the renderer was switched on a page that had been scrolled
\* (and so rendered) under the other renderer
C18_Witness ==
    /\ last.op = "switch_renderer"
    /\ renderer = "TestRendererTreeData"
    /\ viewport.y > 0
    /\ render_cache = <<>>

\* C19: an anchor jump with the top sentinel anchor sets the viewport offset
\* to 0 from every state, leaves the selection range as it was, and looks no
\* node up: it returns normally on every page, the page without nodes
\* included, and calls none of the selection and scrolling operations.
C19_TopSentinelOnlyResetsOffset ==
    [][last'.op = "go_to_top"
        => /\ viewport'.y = 0
           /\ selected' = selected
           /\ ~panicked'
           /\ last'.nsy = 0 /\ last'.nsel = 0 /\ last'.nscr = 0]_vars

\* C19 witness: the jump to the top has run in a sized viewport while a link
\* was selected whose line the viewport at offset 0 does not show
C19_Witness ==
    /\ last.op = "go_to_top"
    /\ Sized
    /\ selected[1] > 0
    /\ SelectionLaidOut
    /\ ~Visible(0, SelectionLine(selected))

\* the kinds of link (wiki_api::document::Link)
LinkKinds == {"Internal", "Anchor", "External", "RedLink", "MediaLink",
              "ExternalToInternal"}

\* the result the activation of a link is to return, by the kind of the
\* link: a confirmation dialog that carries the LoadLink of this link for an
\* internal link and an anchor, a notice that shows the url of this link for
\* an external link, the notice that the page does not exist for a red link,
\* the notice of an unsupported type for a media and a cross-wiki link
ActivationOf(kind, link, res) ==
    IF kind \in {"Internal", "Anchor"}
    THEN res.result = "PopupDialog" /\ res.load = link
    ELSE IF kind = "External"
    THEN res.result = "PopupMessage" /\ res.title = "Warning" /\ res.of = link
         /\ res.load = NoNode
    ELSE IF kind = "RedLink"
    THEN res.result = "PopupMessage" /\ res.message = "The page doesn't exist yet"
         /\ res.load = NoNode
    ELSE res.result = "PopupMessage"
         /\ res.message = "This type of link is not supported yet"
         /\ res.load = NoNode

\* the selected node is in the tree and is a Link
LinkSelected == nth(page, selected[1]) # NoNode /\ IsLink(page, selected[1])

\* C20: the activation of the selection, when the selected node is a Link,
\* returns the result that the kind of the link determines, and changes
\* neither the selection, the viewport nor the render cache.
C20_ActivationByLinkKind ==
    [][(last'.op = "open_link" /\ LinkSelected)
        => /\ data(page, selected[1]).link \in LinkKinds
           /\ ActivationOf(data(page, selected[1]).link, selected[1], last'.result)
           /\ UNCHANGED <<selected, viewport, render_cache>>]_vars

\* C20 witness: a selected external link was activated in a scrolled
\* viewport and the notice with its url was returned
C20_Witness ==
    /\ last.op = "open_link"
    /\ LinkSelected
    /\ data(page, selected[1]).link = "External"
    /\ last.result.result = "PopupMessage" /\ last.result.of = selected[1]
    /\ viewport.y > 0

\* C21 (as claimed): the activation of the selection, when the selected node
\* is in the tree and is not a Link, hands a popup with a notice for the user
\* upward, and changes neither the selection, the viewport nor the render
\* cache.
C21_NonLinkActivationIsReported ==
    [][(last'.op = "open_link" /\ nth(page, selected[1]) # NoNode /\ ~LinkSelected)
        => /\ last'.result.result \in {"PopupMessage", "PopupDialog"}
           /\ UNCHANGED <<selected, viewport, render_cache>>]_vars

\* the operations that enter the cycle scroll_to_y ->
\* check_and_update_selection -> select_node -> check_and_update_scrolling
ChainOps == ScrollOps \cup SelectOps \cup {"go_to_header"}

\* C22: every scroll and select operation terminates, from every state the
\* component can be in (height 0 and width 0 included): the cycle of
\* scroll_to_y, check_and_update_selection, select_node and
\* check_and_update_scrolling makes its last call before the depth that is
\* followed is reached.
C22_ChainsTerminate ==
    last.op \in ChainOps
        => /\ last.ok
           /\ last.nsy < MaxDepth /\ last.nsel < MaxDepth /\ last.nscr < MaxDepth

\* C22 witness: a select operation in a viewport of height 0 has returned
\* after three rounds of the cycle
C22_Witness ==
    /\ last.op \in SelectOps
    /\ viewport.height = 0
    /\ last.nsy = 3 /\ last.nsel = 3
    /\ last.ok

\* the positions, in the links index of the current layout, of the entries
\* on a line the viewport at offset y shows
LinksShown(y) ==
    {k \in 1..Len(CurrentLayout.links) : Visible(y, CurrentLayout.links[k][1])}

\* the node of the topmost, and of the bottommost, of these entries
TopLink(y) ==
    CurrentLayout.links[CHOOSE k \in LinksShown(y) : \A j \in LinksShown(y) : k <= j][2]
BottomLink(y) ==
    CurrentLayout.links[CHOOSE k \in LinksShown(y) : \A j \in LinksShown(y) : k >= j][2]

\* C23 (as claimed): when a scroll leaves the line of the selection outside
\* the new viewport and the links index has entries inside that viewport, the
\* node selected after the scroll is the topmost of these entries when the
\* selection is above the viewport and the bottommost when it is below.
\* Stated for the sized viewports.
C23_NearestLinkSelected ==
    (~panicked /\ Sized /\ nth(page, selected[1]) # NoNode) =>
        \A y \in ScrollRequests :
            LET target == Min(y, MaxOffset)
                sy == selected_y(selected, rendered_page(render_cache, viewport.width))
            IN  (~Visible(target, sy) /\ LinksShown(target) # {})
                    => scroll_to_y(Start, y).sel[1] =
                            IF sy < target THEN TopLink(target) ELSE BottomLink(target)

\* the scroll events
ListOps == {"scroll_up", "scroll_down", "scroll_half_up", "scroll_half_down"}

\* C24 (as claimed): while the contents list is focused, a scroll-up or
\* scroll-down event returns normally and leaves the list cursor inside
\* [0, section count), for every section count; where there is no section
\* the cursor is taken to stay at its initial 0.
C24_CursorWithinSections ==
    (last.op \in ListOps /\ is_contents)
        => /\ ~panicked
           /\ list_state < Len(page.sections)
                \/ (Len(page.sections) = 0 /\ list_state = 0)

\* C25 (as claimed): Root::dispatch handles the global actions itself and
\* hands only the other actions to the component of the current context: no
\* action the search component received is ToggleShowLogger or EnterContext.
C25_GlobalActionsStayInRoot ==
    \A i \in 1..Len(root.search) : root.search[i] \notin GlobalActions

\* C26 (as claimed): every element parse_document has produced carries the
\* id that is its zero-based position in the sequence of elements, so the
\* ids are unique and dense.
C26_IdsAreDensePositions ==
    \A i \in 1..Len(parser.elements) : parser.elements[i].id = i - 1

\* C27 (as claimed): in every reachable state the selection is the empty
\* selection (0, 0) or a range that starts at a Link node.  Stated for the
\* sized viewports.
C27_SelectionIsEmptyOrLink ==
    Sized => (selected = <<0, 0>> \/ LinkSelected)

\* the operations of update() for the actions handle_key_events returns
\* while the page, not the contents list, has the keys
KeyOps == {"switch_renderer", "toggle_contents", "select_first", "select_last",
           "select_top_bottom", "select_prev", "select_next"}

\* C28 (as claimed): update() processes every action that handle_key_events
\* can return while the page is focused without aborting the session.
C28_KeyActionsAreProcessed ==
    [][(~is_contents /\ last'.op \in KeyOps)
        => (~panicked' /\ last'.result \in {Consumed, Ignored})]_vars

\* the indices of the layout lines the viewport shows: y .. y + height - 1,
\* fewer at the end of the layout
LinesShown ==
    [k \in 1..saturating_sub(Min(TotalLines, viewport.y + viewport.height), viewport.y)
        |-> viewport.y + k - 1]

\* C29 (as claimed): render() gives to the display exactly the layout lines
\* y .. y + height - 1 (fewer only at the end of the layout), in order, also
\* when y = 0.  Stated for the sized viewports.
C29_RenderDrawsViewportLines ==
    (last.op = "render" /\ Sized) => last.drawn = LinesShown

====
